---- MODULE Spec2Model ----
(***************************************************************************)
(* Query construction and store round-trips of the jobly models:           *)
(*   helpers/sql.js   sqlForPartialUpdate                                  *)
(*   models/company.js Company.create / findAll / get / update / remove    *)
(*   models/job.js     Job.create / findAll / get / update / remove        *)
(*                                                                         *)
(* A SQL statement is a sequence of tokens (records with a kind k, a       *)
(* column or table name col, an operator op and a placeholder number ph,   *)
(* 0 when the token carries no placeholder).  Every statement is built the *)
(* way the source builds its text: fixed parts are literal tokens, dynamic *)
(* parts are concatenated in the order the code concatenates them.         *)
(* db.query is the store: it binds placeholder $i to the i-th element of   *)
(* the values list and interprets the statement.                           *)
(***************************************************************************)
EXTENDS Integers, Sequences, FiniteSets, TLC

VARIABLES
  companies,  \* the companies table: handle -> row (snake_case columns)
  jobs,       \* the jobs table: id -> row
  nextId,     \* the jobs.id serial
  last,       \* the last call: its name, inputs, queries sent, outcome
  calls       \* the Company.create calls in flight: where each one stands

vars == <<companies, jobs, nextId, last, calls>>

(***************************************************************************)
(* Bounds                                                                  *)
(***************************************************************************)
\* largest number of keys in an update payload
MaxFields == 2
\* largest jobs.id the serial hands out
MaxJobs == 1
\* largest number used as a numeric search filter
MaxNum == 2
\* number of Company.create calls in flight at once
MaxCalls == 2

(***************************************************************************)
(* JavaScript values                                                       *)
(***************************************************************************)
Undefined == [t |-> "undefined"]
Null == [t |-> "null"]
Num(n) == [t |-> "number", n |-> n]
Str(s) == [t |-> "string", s |-> s]
Bool(b) == [t |-> "boolean", b |-> b]

\* ToBoolean, as `if (x)` and `a || b` apply it
Truthy(v) ==
  CASE v.t = "undefined" -> FALSE
    [] v.t = "null" -> FALSE
    [] v.t = "number" -> v.n # 0
    [] v.t = "string" -> v.s # ""
    [] v.t = "boolean" -> v.b

\* variant: a && b && a > b
JsGreaterWhenTruthy(a, b) ==
  IF a.t = "number" /\ b.t = "number" THEN a.n # 0 /\ b.n # 0 /\ a.n > b.n ELSE FALSE

\* a > b on numbers and undefined: undefined converts to NaN and every
\* comparison with NaN is false
JsGreater(a, b) ==
  IF a.t = "number" /\ b.t = "number" THEN a.n > b.n ELSE FALSE

\* variant: the flag taken by truthiness
TruthyFlag(v) == Truthy(v)

\* a === true
StrictlyTrue(v) == v.t = "boolean" /\ v.b

(***************************************************************************)
(* Objects: a sequence of [key, val] entries with distinct keys, in        *)
(* property order.                                                         *)
(***************************************************************************)
ObjectKeys(obj) == [i \in 1..Len(obj) |-> obj[i].key]
ObjectValues(obj) == [i \in 1..Len(obj) |-> obj[i].val]

\* obj[key]: undefined when the object has no such property
Prop(obj, key) ==
  IF \E i \in 1..Len(obj) : obj[i].key = key
  THEN (CHOOSE e \in {obj[i] : i \in 1..Len(obj)} : e.key = key).val
  ELSE Undefined

\* all objects with at most n of the given keys, in every property order,
\* each key k taking a value of vals[k]
RECURSIVE ObjectsOver(_, _, _)
ObjectsOver(keys, vals, n) ==
  IF n = 0 \/ keys = {} THEN {<<>>}
  ELSE {<<>>} \cup
       UNION {{<<[key |-> k, val |-> v]>> \o rest :
                 v \in vals[k], rest \in ObjectsOver(keys \ {k}, vals, n - 1)} :
              k \in keys}

(***************************************************************************)
(* Statement tokens                                                        *)
(***************************************************************************)
Tok(k, col, op, ph) == [k |-> k, col |-> col, op |-> op, ph |-> ph]

\* Array.prototype.join: the elements with the separator between neighbours
RECURSIVE Join(_, _)
Join(parts, sep) ==
  IF Len(parts) = 0 THEN <<>>
  ELSE IF Len(parts) = 1 THEN <<parts[1]>>
  ELSE <<parts[1], sep>> \o Join(Tail(parts), sep)

Comma == Tok("sep", "", ", ", 0)
And == Tok("sep", "", " AND ", 0)

(***************************************************************************)
(* helpers/sql.js                                                          *)
(***************************************************************************)
\* jsToSql[colName] || colName
ColumnName(jsToSql, colName) ==
  IF Truthy(Prop(jsToSql, colName)) THEN Prop(jsToSql, colName).s ELSE colName

\* variant: the placeholder numbered from the 0-based index itself
SetFragmentFromZero(jsToSql, colName, idx) ==
  Tok("set", ColumnName(jsToSql, colName), "=", idx)

\* `"${jsToSql[colName] || colName}"=$${idx + 1}` for the key at 0-based idx
SetFragment(jsToSql, colName, idx) ==
  Tok("set", ColumnName(jsToSql, colName), "=", idx + 1)

\* variant: no check for an empty mapping
sqlForPartialUpdateUnchecked(dataToUpdate, jsToSql) ==
  LET keys == ObjectKeys(dataToUpdate)
      cols == [i \in 1..Len(keys) |-> SetFragment(jsToSql, keys[i], i - 1)]
  IN [err |-> "",
      setCols |-> Join(cols, Comma),
      values |-> ObjectValues(dataToUpdate)]

sqlForPartialUpdate(dataToUpdate, jsToSql) ==
  LET keys == ObjectKeys(dataToUpdate)
      cols == [i \in 1..Len(keys) |-> SetFragment(jsToSql, keys[i], i - 1)]
  IN IF Len(keys) = 0
     THEN [err |-> "BadRequestError", msg |-> "No data"]
     ELSE [err |-> "",
           setCols |-> Join(cols, Comma),
           values |-> ObjectValues(dataToUpdate)]

(***************************************************************************)
(* The store behind db.query(text, values).  db is the record              *)
(* [companies, jobs, nextId]; the answer is [err, rows, db].               *)
(***************************************************************************)
OfKind(sql, kind) == SelectSeq(sql, LAMBDA t : t.k = kind)

\* the placeholders a statement mentions
Placeholders(sql) == {sql[i].ph : i \in 1..Len(sql)} \ {0}

\* a statement the store can parse and bind: WHERE is followed by a
\* predicate, SET by an assignment, and the statement uses exactly $1..$n
\* for n values
WellFormed(sql, params) ==
  /\ \A i \in 1..Len(sql) :
       /\ sql[i].k = "WHERE" => (i < Len(sql) /\ sql[i + 1].k = "pred")
       /\ sql[i].k = "SET" => (i < Len(sql) /\ sql[i + 1].k = "set")
  /\ Placeholders(sql) = 1..Len(params)

\* the table a statement names
TableOf(sql) ==
  IF sql[1].k = "SELECT" THEN OfKind(sql, "FROM")[1].col ELSE sql[1].col

\* column = $ph, on a row; NULL compares equal to nothing
Holds(pred, row, params) ==
  /\ pred.op = "="
  /\ row[pred.col] # Null
  /\ row[pred.col] = params[pred.ph]

Matching(table, sql, params) ==
  {key \in DOMAIN table :
     \A i \in 1..Len(sql) : sql[i].k = "pred" => Holds(sql[i], table[key], params)}

\* the select list or RETURNING list applied to a row: column AS alias
Project(sql, row) ==
  LET outs == OfKind(sql, "out")
  IN [alias \in {outs[i].op : i \in 1..Len(outs)} |->
        row[(CHOOSE o \in {outs[i] : i \in 1..Len(outs)} : o.op = alias).col]]

\* the keys of a table in ascending order (ids are numbers, and a lookup by
\* primary key yields at most one row)
RECURSIVE Ascending(_)
Ascending(keys) ==
  IF keys = {} THEN <<>>
  ELSE LET least == CHOOSE a \in keys : \A b \in keys : a = b \/ a < b
       IN <<least>> \o Ascending(keys \ {least})

\* $ph bound to the values list
Bind(params, ph) == params[ph]

\* the row an INSERT builds from its (column, $ph) pairs
InsertedRow(sql, params) ==
  LET vals == OfKind(sql, "value")
  IN [c \in {vals[i].col : i \in 1..Len(vals)} |->
        Bind(params, (CHOOSE v \in {vals[i] : i \in 1..Len(vals)} : v.col = c).ph)]

\* the row an UPDATE leaves: the SET columns take their bound values
UpdatedRow(sql, params, row) ==
  LET sets == OfKind(sql, "set")
  IN [c \in DOMAIN row |->
        IF \E i \in 1..Len(sets) : sets[i].col = c
        THEN Bind(params, (CHOOSE s \in {sets[i] : i \in 1..Len(sets)} : s.col = c).ph)
        ELSE row[c]]

StoreError(db) == [err |-> "StoreError", rows |-> <<>>, db |-> db]

DbSelect(db, sql, params) ==
  LET table == db[TableOf(sql)]
      keys == Ascending(Matching(table, sql, params))
  IN [err |-> "",
      rows |-> [i \in 1..Len(keys) |-> Project(sql, table[keys[i]])],
      db |-> db]

\* INSERT INTO companies: handle is the primary key
DbInsertCompany(db, sql, params) ==
  LET row == InsertedRow(sql, params)
  IN IF row.handle.t # "string" \/ row.handle.s \in DOMAIN db.companies
     THEN StoreError(db)
     ELSE [err |-> "",
           rows |-> <<Project(sql, row)>>,
           db |-> [db EXCEPT !.companies =
                     [h \in DOMAIN db.companies \cup {row.handle.s} |->
                        IF h = row.handle.s THEN row ELSE db.companies[h]]]]

\* INSERT INTO jobs: id is generated, company_handle references companies
DbInsertJob(db, sql, params) ==
  LET id == db.nextId
      row == [c \in DOMAIN InsertedRow(sql, params) \cup {"id"} |->
                IF c = "id" THEN Num(id) ELSE InsertedRow(sql, params)[c]]
  IN IF row.company_handle.t # "string"
        \/ row.company_handle.s \notin DOMAIN db.companies
     THEN StoreError(db)
     ELSE [err |-> "",
           rows |-> <<Project(sql, row)>>,
           db |-> [db EXCEPT !.nextId = id + 1,
                             !.jobs = [j \in DOMAIN db.jobs \cup {id} |->
                                         IF j = id THEN row ELSE db.jobs[j]]]]

DbUpdate(db, sql, params) ==
  LET name == TableOf(sql)
      table == db[name]
      hit == Matching(table, sql, params)
      keys == Ascending(hit)
      sets == OfKind(sql, "set")
      after == [key \in DOMAIN table |->
                  IF key \in hit THEN UpdatedRow(sql, params, table[key])
                  ELSE table[key]]
  IN IF \E i \in 1..Len(sets) : sets[i].col \notin {"name", "description",
          "num_employees", "logo_url", "title", "salary", "equity"}
     THEN StoreError(db)
     ELSE [err |-> "",
           rows |-> [i \in 1..Len(keys) |-> Project(sql, after[keys[i]])],
           db |-> [db EXCEPT ![name] = after]]

\* DELETE: a company's jobs go with it
DbDelete(db, sql, params) ==
  LET name == TableOf(sql)
      table == db[name]
      hit == Matching(table, sql, params)
      keys == Ascending(hit)
      kept == [key \in DOMAIN table \ hit |-> table[key]]
      owned == {j \in DOMAIN db.jobs : db.jobs[j].company_handle.s \in hit}
  IN [err |-> "",
      rows |-> [i \in 1..Len(keys) |-> Project(sql, table[keys[i]])],
      db |-> IF name = "companies"
             THEN [db EXCEPT !.companies = kept,
                             !.jobs = [j \in DOMAIN db.jobs \ owned |-> db.jobs[j]]]
             ELSE [db EXCEPT ![name] = kept]]

DbQuery(db, sql, params) ==
  IF ~WellFormed(sql, params) THEN StoreError(db)
  ELSE CASE sql[1].k = "SELECT" -> DbSelect(db, sql, params)
         [] sql[1].k = "INSERT" /\ TableOf(sql) = "companies" ->
              DbInsertCompany(db, sql, params)
         [] sql[1].k = "INSERT" /\ TableOf(sql) = "jobs" ->
              DbInsertJob(db, sql, params)
         [] sql[1].k = "UPDATE" -> DbUpdate(db, sql, params)
         [] sql[1].k = "DELETE" -> DbDelete(db, sql, params)

(***************************************************************************)
(* What a call leaves behind: the error thrown ("" when it returned), the  *)
(* value returned, the store, and the (text, values) pairs it sent.        *)
(***************************************************************************)
Query(sql, params) == [sql |-> sql, values |-> params]

Threw(err, db, queries) ==
  [err |-> err, ret |-> Undefined, db |-> db, queries |-> queries]

Returned(ret, db, queries) ==
  [err |-> "", ret |-> ret, db |-> db, queries |-> queries]

(***************************************************************************)
(* models/company.js                                                       *)
(***************************************************************************)
\* handle, name, description, num_employees AS "numEmployees",
\* logo_url AS "logoUrl"
CompanyColumns ==
  << Tok("out", "handle", "handle", 0),
     Tok("out", "name", "name", 0),
     Tok("out", "description", "description", 0),
     Tok("out", "num_employees", "numEmployees", 0),
     Tok("out", "logo_url", "logoUrl", 0) >>

CompanyDuplicateCheckSql ==
  << Tok("SELECT", "", "", 0), Tok("out", "handle", "handle", 0),
     Tok("FROM", "companies", "", 0),
     Tok("WHERE", "", "", 0), Tok("pred", "handle", "=", 1) >>

CompanyInsertSql ==
  << Tok("INSERT", "companies", "", 0),
     Tok("value", "handle", "", 1),
     Tok("value", "name", "", 2),
     Tok("value", "description", "", 3),
     Tok("value", "num_employees", "", 4),
     Tok("value", "logo_url", "", 5),
     Tok("RETURNING", "", "", 0) >> \o CompanyColumns

\* variant: name and description in each other's position
CompanyInsertValuesSwapped(data) ==
  <<data.handle, data.description, data.name, data.numEmployees, data.logoUrl>>

CompanyInsertValues(data) ==
  <<data.handle, data.name, data.description, data.numEmployees, data.logoUrl>>

\* variant: the INSERT sent without the duplicate check
CompanyCreateUnchecked(db, data) ==
  LET q2 == Query(CompanyInsertSql, CompanyInsertValues(data))
      result == DbQuery(db, q2.sql, q2.values)
  IN IF result.err # "" THEN Threw(result.err, result.db, <<q2>>)
     ELSE Returned(result.rows[1], result.db, <<q2>>)

CompanyCreate(db, data) ==
  LET q1 == Query(CompanyDuplicateCheckSql, <<data.handle>>)
      duplicateCheck == DbQuery(db, q1.sql, q1.values)
      q2 == Query(CompanyInsertSql, CompanyInsertValues(data))
      result == DbQuery(duplicateCheck.db, q2.sql, q2.values)
  IN IF duplicateCheck.err # "" THEN Threw(duplicateCheck.err, db, <<q1>>)
     ELSE IF Len(duplicateCheck.rows) > 0
     THEN Threw("BadRequestError", duplicateCheck.db, <<q1>>)
     ELSE IF result.err # "" THEN Threw(result.err, result.db, <<q1, q2>>)
     ELSE Returned(result.rows[1], result.db, <<q1, q2>>)

\* a call suspended at an await, its next query not sent yet
Awaiting(db, queries) ==
  [err |-> "", ret |-> Undefined, db |-> db, queries |-> queries]

\* variant: the duplicate check sent and its rows not looked at
CompanyCreateCheckIgnored(db, data) ==
  LET q1 == Query(CompanyDuplicateCheckSql, <<data.handle>>)
      duplicateCheck == DbQuery(db, q1.sql, q1.values)
  IN IF duplicateCheck.err # "" THEN Threw(duplicateCheck.err, db, <<q1>>)
     ELSE Awaiting(duplicateCheck.db, <<q1>>)

\* Company.create up to its second await: the duplicate check and the throw
CompanyCreateCheck(db, data) ==
  LET q1 == Query(CompanyDuplicateCheckSql, <<data.handle>>)
      duplicateCheck == DbQuery(db, q1.sql, q1.values)
  IN IF duplicateCheck.err # "" THEN Threw(duplicateCheck.err, db, <<q1>>)
     ELSE IF Len(duplicateCheck.rows) > 0
     THEN Threw("BadRequestError", duplicateCheck.db, <<q1>>)
     ELSE Awaiting(duplicateCheck.db, <<q1>>)

\* Company.create from its second await: the INSERT and the return, sent
\* being the queries the call has sent so far
CompanyCreateInsert(db, data, sent) ==
  LET q2 == Query(CompanyInsertSql, CompanyInsertValues(data))
      result == DbQuery(db, q2.sql, q2.values)
  IN IF result.err # "" THEN Threw(result.err, result.db, sent \o <<q2>>)
     ELSE Returned(result.rows[1], result.db, sent \o <<q2>>)

CompanySelectSql ==
  <<Tok("SELECT", "", "", 0)>> \o CompanyColumns \o
  << Tok("FROM", "companies", "", 0),
     Tok("WHERE", "", "", 0), Tok("pred", "handle", "=", 1) >>

CompanyJobsSql ==
  << Tok("SELECT", "", "", 0),
     Tok("out", "id", "id", 0), Tok("out", "title", "title", 0),
     Tok("out", "salary", "salary", 0), Tok("out", "equity", "equity", 0),
     Tok("FROM", "jobs", "", 0),
     Tok("WHERE", "", "", 0), Tok("pred", "company_handle", "=", 1),
     Tok("ORDER BY", "id", "", 0) >>

\* company.jobs = jobRes.rows
WithJobs(company, rows) ==
  [f \in DOMAIN company \cup {"jobs"} |->
     IF f = "jobs" THEN rows ELSE company[f]]

CompanyGet(db, handle) ==
  LET q1 == Query(CompanySelectSql, <<handle>>)
      companyRes == DbQuery(db, q1.sql, q1.values)
      q2 == Query(CompanyJobsSql, <<handle>>)
      jobRes == DbQuery(companyRes.db, q2.sql, q2.values)
  IN IF companyRes.err # "" THEN Threw(companyRes.err, db, <<q1>>)
     ELSE IF Len(companyRes.rows) = 0
     THEN Threw("NotFoundError", companyRes.db, <<q1>>)
     ELSE IF jobRes.err # "" THEN Threw(jobRes.err, jobRes.db, <<q1, q2>>)
     ELSE Returned(WithJobs(companyRes.rows[1], jobRes.rows), jobRes.db, <<q1, q2>>)

\* { numEmployees: "num_employees", logoUrl: "logo_url" }
CompanyJsToSql ==
  << [key |-> "numEmployees", val |-> Str("num_employees")],
     [key |-> "logoUrl", val |-> Str("logo_url")] >>

\* variant: "$" + values.length
KeyVarIdxShort(values) == Len(values)

\* "$" + (values.length + 1)
KeyVarIdx(values) == Len(values) + 1

\* [...values, key]
UpdateValues(values, key) == values \o <<key>>

CompanyUpdateSql(setCols, handleVarIdx) ==
  <<Tok("UPDATE", "companies", "", 0), Tok("SET", "", "", 0)>> \o setCols \o
  <<Tok("WHERE", "", "", 0), Tok("pred", "handle", "=", handleVarIdx),
    Tok("RETURNING", "", "", 0)>> \o CompanyColumns

CompanyUpdate(db, handle, data) ==
  LET built == sqlForPartialUpdate(data, CompanyJsToSql)
      handleVarIdx == KeyVarIdx(built.values)
      q == Query(CompanyUpdateSql(built.setCols, handleVarIdx),
                 UpdateValues(built.values, handle))
      result == DbQuery(db, q.sql, q.values)
  IN IF built.err # "" THEN Threw(built.err, db, <<>>)
     ELSE IF result.err # "" THEN Threw(result.err, result.db, <<q>>)
     ELSE IF Len(result.rows) = 0 THEN Threw("NotFoundError", result.db, <<q>>)
     ELSE Returned(result.rows[1], result.db, <<q>>)

CompanyDeleteSql ==
  << Tok("DELETE", "companies", "", 0),
     Tok("WHERE", "", "", 0), Tok("pred", "handle", "=", 1),
     Tok("RETURNING", "", "", 0), Tok("out", "handle", "handle", 0) >>

CompanyRemove(db, handle) ==
  LET q == Query(CompanyDeleteSql, <<handle>>)
      result == DbQuery(db, q.sql, q.values)
  IN IF result.err # "" THEN Threw(result.err, result.db, <<q>>)
     ELSE IF Len(result.rows) = 0 THEN Threw("NotFoundError", result.db, <<q>>)
     ELSE Returned(Undefined, result.db, <<q>>)

\* `%${name}%`
Pattern(v) == Str("%" \o (IF v.t = "string" THEN v.s ELSE ToString(v.n)) \o "%")

\* SELECT handle, name, ... FROM companies
CompanyFindAllBase ==
  <<Tok("SELECT", "", "", 0)>> \o CompanyColumns \o <<Tok("FROM", "companies", "", 0)>>

\* queryValues.push(value); whereValues.push(`${col} ${op} $${queryValues.length}`)
PushFilter(acc, value, col, op) ==
  LET queryValues == Append(acc.queryValues, value)
  IN [queryValues |-> queryValues,
      whereValues |-> Append(acc.whereValues, Tok("pred", col, op, Len(queryValues)))]

\* variant: query += " WHERE " + whereValues.join(" AND "), unguarded
WhereTextUnguarded(whereValues) ==
  <<Tok("WHERE", "", "", 0)>> \o Join(whereValues, And)

\* if (whereValues.length > 0) query += " WHERE " + whereValues.join(" AND ")
WhereText(whereValues) ==
  IF Len(whereValues) > 0
  THEN <<Tok("WHERE", "", "", 0)>> \o Join(whereValues, And)
  ELSE <<>>

\* the three `if (filter)` blocks of Company.findAll, in source order
CompanyFilters(searchFilters) ==
  LET name == searchFilters.name
      minEmployees == searchFilters.minEmployees
      maxEmployees == searchFilters.maxEmployees
      a0 == [queryValues |-> <<>>, whereValues |-> <<>>]
      a1 == IF Truthy(name) THEN PushFilter(a0, Pattern(name), "name", "ILIKE") ELSE a0
      a2 == IF Truthy(minEmployees)
            THEN PushFilter(a1, minEmployees, "num_employees", ">=") ELSE a1
      a3 == IF Truthy(maxEmployees)
            THEN PushFilter(a2, maxEmployees, "num_employees", "<=") ELSE a2
  IN a3

\* the rows a findAll returns are not modelled: the call changes no state
\* and its outcome here is the statement and values it hands to db.query
CompanyFindAll(db, searchFilters) ==
  LET built == CompanyFilters(searchFilters)
      query == CompanyFindAllBase \o WhereText(built.whereValues)
                 \o <<Tok("ORDER BY", "name", "", 0)>>
  IN IF JsGreater(searchFilters.minEmployees, searchFilters.maxEmployees)
     THEN Threw("BadRequestError", db, <<>>)
     ELSE Returned(Undefined, db, <<Query(query, built.queryValues)>>)

(***************************************************************************)
(* models/job.js                                                           *)
(***************************************************************************)
\* id, title, salary, equity, company_handle AS "companyHandle"
JobColumns ==
  << Tok("out", "id", "id", 0),
     Tok("out", "title", "title", 0),
     Tok("out", "salary", "salary", 0),
     Tok("out", "equity", "equity", 0),
     Tok("out", "company_handle", "companyHandle", 0) >>

JobInsertSql ==
  << Tok("INSERT", "jobs", "", 0),
     Tok("value", "title", "", 1),
     Tok("value", "salary", "", 2),
     Tok("value", "equity", "", 3),
     Tok("value", "company_handle", "", 4),
     Tok("RETURNING", "", "", 0) >> \o JobColumns

JobCreate(db, data) ==
  LET q == Query(JobInsertSql,
                 <<data.title, data.salary, data.equity, data.companyHandle>>)
      result == DbQuery(db, q.sql, q.values)
  IN IF result.err # "" THEN Threw(result.err, result.db, <<q>>)
     ELSE Returned(result.rows[1], result.db, <<q>>)

\* SELECT j.id, ..., c.name AS "companyName" FROM jobs AS j LEFT JOIN companies
JobFindAllBase ==
  <<Tok("SELECT", "", "", 0)>> \o JobColumns \o
  << Tok("out", "name", "companyName", 0),
     Tok("FROM", "jobs", "LEFT JOIN companies", 0) >>

\* whereValues.push(`equity > 0`): no value is pushed
PushFixed(acc, col, op) ==
  [queryValues |-> acc.queryValues,
   whereValues |-> Append(acc.whereValues, Tok("pred", col, op, 0))]

\* the three `if` blocks of Job.findAll, in source order
JobFilters(searchFilters) ==
  LET title == searchFilters.title
      minSalary == searchFilters.minSalary
      hasEquity == searchFilters.hasEquity
      a0 == [queryValues |-> <<>>, whereValues |-> <<>>]
      a1 == IF Truthy(title) THEN PushFilter(a0, Pattern(title), "title", "ILIKE") ELSE a0
      a2 == IF Truthy(minSalary) THEN PushFilter(a1, minSalary, "salary", ">=") ELSE a1
      a3 == IF StrictlyTrue(hasEquity) THEN PushFixed(a2, "equity", "> 0") ELSE a2
  IN a3

JobFindAll(db, searchFilters) ==
  LET built == JobFilters(searchFilters)
      query == JobFindAllBase \o WhereText(built.whereValues)
                 \o <<Tok("ORDER BY", "title", "", 0)>>
  IN Returned(Undefined, db, <<Query(query, built.queryValues)>>)

JobSelectSql ==
  <<Tok("SELECT", "", "", 0)>> \o JobColumns \o
  << Tok("FROM", "jobs", "", 0),
     Tok("WHERE", "", "", 0), Tok("pred", "id", "=", 1) >>

\* delete job.companyHandle; job.company = companyRes.rows[0]
WithCompany(job, rows) ==
  [f \in (DOMAIN job \ {"companyHandle"}) \cup {"company"} |->
     IF f = "company"
     THEN (IF Len(rows) > 0 THEN rows[1] ELSE Undefined)
     ELSE job[f]]

JobGet(db, id) ==
  LET q1 == Query(JobSelectSql, <<id>>)
      jobRes == DbQuery(db, q1.sql, q1.values)
      q2 == Query(CompanySelectSql, <<jobRes.rows[1].companyHandle>>)
      companyRes == DbQuery(jobRes.db, q2.sql, q2.values)
  IN IF jobRes.err # "" THEN Threw(jobRes.err, db, <<q1>>)
     ELSE IF Len(jobRes.rows) = 0 THEN Threw("NotFoundError", jobRes.db, <<q1>>)
     ELSE IF companyRes.err # "" THEN Threw(companyRes.err, companyRes.db, <<q1, q2>>)
     ELSE Returned(WithCompany(jobRes.rows[1], companyRes.rows), companyRes.db,
                   <<q1, q2>>)

JobUpdateSql(setCols, idVarIdx) ==
  <<Tok("UPDATE", "jobs", "", 0), Tok("SET", "", "", 0)>> \o setCols \o
  <<Tok("WHERE", "", "", 0), Tok("pred", "id", "=", idVarIdx),
    Tok("RETURNING", "", "", 0)>> \o JobColumns

JobUpdate(db, id, data) ==
  LET built == sqlForPartialUpdate(data, <<>>)
      idVarIdx == KeyVarIdx(built.values)
      q == Query(JobUpdateSql(built.setCols, idVarIdx), UpdateValues(built.values, id))
      result == DbQuery(db, q.sql, q.values)
  IN IF built.err # "" THEN Threw(built.err, db, <<>>)
     ELSE IF result.err # "" THEN Threw(result.err, result.db, <<q>>)
     ELSE IF Len(result.rows) = 0 THEN Threw("NotFoundError", result.db, <<q>>)
     ELSE Returned(result.rows[1], result.db, <<q>>)

JobDeleteSql ==
  << Tok("DELETE", "jobs", "", 0),
     Tok("WHERE", "", "", 0), Tok("pred", "id", "=", 1),
     Tok("RETURNING", "", "", 0), Tok("out", "id", "id", 0) >>

\* variant: the rows of the DELETE not looked at
JobRemoveUnchecked(db, id) ==
  LET q == Query(JobDeleteSql, <<id>>)
      result == DbQuery(db, q.sql, q.values)
  IN IF result.err # "" THEN Threw(result.err, result.db, <<q>>)
     ELSE Returned(Undefined, result.db, <<q>>)

JobRemove(db, id) ==
  LET q == Query(JobDeleteSql, <<id>>)
      result == DbQuery(db, q.sql, q.values)
  IN IF result.err # "" THEN Threw(result.err, result.db, <<q>>)
     ELSE IF Len(result.rows) = 0 THEN Threw("NotFoundError", result.db, <<q>>)
     ELSE Returned(Undefined, result.db, <<q>>)

(***************************************************************************)
(* Inputs                                                                  *)
(***************************************************************************)
\* handles a caller may name: one that gets created and one that never is
Handles == {"c1", "nope"}

\* { handle, name, description, numEmployees, logoUrl } records to create
NewCompanies ==
  {[handle |-> Str("c1"), name |-> Str("C1"), description |-> Str("Desc1"),
    numEmployees |-> Num(1), logoUrl |-> Str("http://c1.img")]}

\* update payloads of a company: { name, numEmployees, logoUrl } subsets
CompanyPayloads ==
  ObjectsOver({"name", "numEmployees", "logoUrl"},
              [name |-> {Str("New")}, numEmployees |-> {Num(2)},
               logoUrl |-> {Null}],
              MaxFields)

\* { title, salary, equity, companyHandle } records to create
NewJobs ==
  {[title |-> Str("J1"), salary |-> Num(1), equity |-> Str("0.1"),
    companyHandle |-> Str(h)] : h \in Handles}

\* update payloads of a job: { title, salary, equity } subsets
JobPayloads ==
  ObjectsOver({"title", "salary", "equity"},
              [title |-> {Str("New")}, salary |-> {Num(2)}, equity |-> {Str("0.1")}],
              MaxFields)

\* ids a caller may name: those the serial can hand out and one it never does
JobIds == 1..(MaxJobs + 1)

Numbers == {Undefined} \cup {Num(n) : n \in 0..MaxNum}

CompanySearches ==
  [name : {Undefined, Str(""), Str("net")},
   minEmployees : Numbers, maxEmployees : Numbers]

JobSearches ==
  [title : {Undefined, Str(""), Str("J1")},
   minSalary : Numbers,
   hasEquity : {Undefined, Bool(TRUE), Bool(FALSE), Str("true"), Num(1)}]

\* field mappings and column maps handed to sqlForPartialUpdate
FieldMappings ==
  ObjectsOver({"firstName", "age", "numEmployees"},
              [firstName |-> {Str("Aliya")}, age |-> {Num(32), Num(0)},
               numEmployees |-> {Num(2), Str("Aliya")}],
              MaxFields)

ColumnMaps ==
  { <<>>,
    <<[key |-> "firstName", val |-> Str("first_name")]>>,
    <<[key |-> "firstName", val |-> Str("first_name")],
      [key |-> "age", val |-> Str("age")]>>,
    <<[key |-> "age", val |-> Str("")]>>,
    CompanyJsToSql }

(***************************************************************************)
(* The state machine: one action per call                                  *)
(***************************************************************************)
Db == [companies |-> companies, jobs |-> jobs, nextId |-> nextId]

\* the concurrent callers of Company.create
Procs == 1..MaxCalls

\* records the concurrent callers create, all under the one handle
SameHandleCompanies ==
  {[handle |-> Str("c1"), name |-> Str(n), description |-> Str("Desc1"),
    numEmployees |-> Num(1), logoUrl |-> l] :
     n \in {"C1", "Other"}, l \in {Null, Str("http://c1.img")}}

NotCalled ==
  [pc |-> "start", data |-> Undefined, err |-> "", ret |-> Undefined,
   queries |-> <<>>]

Init ==
  /\ companies = <<>>
  /\ jobs = <<>>
  /\ nextId = 1
  /\ last = [op |-> "none", args |-> <<>>, err |-> "", ret |-> Undefined,
             queries |-> <<>>]
  /\ calls = [p \in Procs |-> NotCalled]

Done(op, args, outcome) ==
  \E out \in {outcome} :
    /\ companies' = out.db.companies
    /\ jobs' = out.db.jobs
    /\ nextId' = out.db.nextId
    /\ last' = [op |-> op, args |-> args, err |-> out.err, ret |-> out.ret,
                queries |-> out.queries]
    /\ UNCHANGED calls

CallCompanyCreate ==
  \E data \in NewCompanies :
    Done("Company.create", <<data>>, CompanyCreate(Db, data))

CallCompanyFindAll ==
  \E searchFilters \in CompanySearches :
    Done("Company.findAll", <<searchFilters>>, CompanyFindAll(Db, searchFilters))

CallCompanyGet ==
  \E h \in Handles :
    Done("Company.get", <<Str(h)>>, CompanyGet(Db, Str(h)))

CallCompanyUpdate ==
  \E h \in Handles, data \in CompanyPayloads :
    Done("Company.update", <<Str(h), data>>, CompanyUpdate(Db, Str(h), data))

CallCompanyRemove ==
  \E h \in Handles :
    Done("Company.remove", <<Str(h)>>, CompanyRemove(Db, Str(h)))

CallJobCreate ==
  /\ nextId <= MaxJobs
  /\ \E data \in NewJobs :
       Done("Job.create", <<data>>, JobCreate(Db, data))

CallJobFindAll ==
  \E searchFilters \in JobSearches :
    Done("Job.findAll", <<searchFilters>>, JobFindAll(Db, searchFilters))

CallJobGet ==
  \E id \in JobIds :
    Done("Job.get", <<Num(id)>>, JobGet(Db, Num(id)))

CallJobUpdate ==
  \E id \in JobIds, data \in JobPayloads :
    Done("Job.update", <<Num(id), data>>, JobUpdate(Db, Num(id), data))

CallJobRemove ==
  \E id \in JobIds :
    Done("Job.remove", <<Num(id)>>, JobRemove(Db, Num(id)))

\* the helper called on its own, on a field mapping of the given set
CallSqlForPartialUpdate(mappings) ==
  \E dataToUpdate \in mappings, jsToSql \in ColumnMaps :
    /\ last' = [op |-> "sqlForPartialUpdate", args |-> <<dataToUpdate, jsToSql>>,
                out |-> sqlForPartialUpdate(dataToUpdate, jsToSql)]
    /\ UNCHANGED <<companies, jobs, nextId, calls>>

\* the create / get / update / remove calls of both models, and the helper
\* on the empty mapping an update without data hands it
Next ==
  \/ CallSqlForPartialUpdate({<<>>})
  \/ CallCompanyCreate
  \/ CallCompanyGet
  \/ CallCompanyUpdate
  \/ CallCompanyRemove
  \/ CallJobCreate
  \/ CallJobGet
  \/ CallJobUpdate
  \/ CallJobRemove

Spec == Init /\ [][Next]_vars

\* the searches
NextFindAll == CallCompanyFindAll \/ CallJobFindAll

FindAllSpec == Init /\ [][NextFindAll]_vars

\* the helper alone
NextSql == CallSqlForPartialUpdate(FieldMappings)

SqlSpec == Init /\ [][NextSql]_vars

\* caller p enters Company.create and runs to its second await: one store
\* round-trip, the duplicate check
CreateCheckStep(p) ==
  /\ calls[p].pc = "start"
  /\ \E data \in SameHandleCompanies :
       \E out \in {CompanyCreateCheck(Db, data)} :
         /\ companies' = out.db.companies
         /\ jobs' = out.db.jobs
         /\ nextId' = out.db.nextId
         /\ calls' = [calls EXCEPT ![p] =
                        [pc |-> IF out.err # "" THEN "done" ELSE "insert",
                         data |-> data, err |-> out.err, ret |-> out.ret,
                         queries |-> out.queries]]
  /\ UNCHANGED last

\* caller p resumes after the duplicate check: one store round-trip, the
\* INSERT, and the return
CreateInsertStep(p) ==
  /\ calls[p].pc = "insert"
  /\ \E out \in {CompanyCreateInsert(Db, calls[p].data, calls[p].queries)} :
       /\ companies' = out.db.companies
       /\ jobs' = out.db.jobs
       /\ nextId' = out.db.nextId
       /\ calls' = [calls EXCEPT ![p] =
                      [pc |-> "done", data |-> calls[p].data, err |-> out.err,
                       ret |-> out.ret, queries |-> out.queries]]
  /\ UNCHANGED last

\* concurrent Company.create calls for one handle, interleaved at their awaits
NextConcurrent ==
  \E p \in Procs : CreateCheckStep(p) \/ CreateInsertStep(p)

ConcurrentSpec == Init /\ [][NextConcurrent]_vars

(***************************************************************************)
(* Properties                                                              *)
(***************************************************************************)
\* the column the source resolves a key to, read off the column map
ResolvesTo(jsToSql, key, col) ==
  \/ \E i \in 1..Len(jsToSql) :
       jsToSql[i].key = key /\ jsToSql[i].val.s # "" /\ col = jsToSql[i].val.s
  \/ /\ \A i \in 1..Len(jsToSql) : jsToSql[i].key = key => jsToSql[i].val.s = ""
     /\ col = key

\* C1: for a non-empty field mapping and any column map, sqlForPartialUpdate
\* returns one fragment per key, in key order and comma-joined, the i-th
\* fragment carrying placeholder $i, and a values list of the same length
\* whose i-th element is the value of the i-th key; the documented example
\* {firstName: 'Aliya', age: 32} gives "first_name"=$1, "age"=$2 and
\* ['Aliya', 32].
C1_SetClauseMatchesValues ==
  (last.op = "sqlForPartialUpdate" /\ Len(last.args[1]) > 0) =>
    LET data == last.args[1]
        jsToSql == last.args[2]
        out == last.out
        n == Len(data)
    IN /\ out.err = ""
       /\ Len(out.setCols) = 2 * n - 1
       /\ \A i \in 1..n :
            /\ out.setCols[2 * i - 1].k = "set"
            /\ out.setCols[2 * i - 1].ph = i
            /\ ResolvesTo(jsToSql, data[i].key, out.setCols[2 * i - 1].col)
       /\ \A i \in 1..(n - 1) : out.setCols[2 * i] = Comma
       /\ Len(out.values) = n
       /\ \A i \in 1..n : out.values[out.setCols[2 * i - 1].ph] = data[i].val
       /\ (/\ data = <<[key |-> "firstName", val |-> Str("Aliya")],
                       [key |-> "age", val |-> Num(32)]>>
           /\ jsToSql = <<[key |-> "firstName", val |-> Str("first_name")]>>)
          => /\ out.setCols = <<Tok("set", "first_name", "=", 1), Comma,
                                Tok("set", "age", "=", 2)>>
             /\ out.values = <<Str("Aliya"), Num(32)>>

\* the helper has answered the documented example
C1_Witness ==
  /\ last.op = "sqlForPartialUpdate"
  /\ last.args[1] = <<[key |-> "firstName", val |-> Str("Aliya")],
                      [key |-> "age", val |-> Num(32)]>>
  /\ last.args[2] = <<[key |-> "firstName", val |-> Str("first_name")]>>
  /\ last.out.err = ""
  /\ Len(last.out.values) = 2

\* C2: sqlForPartialUpdate on an empty field mapping throws BadRequestError
\* whatever the column map, and Company.update and Job.update with empty
\* data throw it having sent no query, the store left as it was.
C2_EmptyUpdateRejected ==
  [][/\ (last'.op = "sqlForPartialUpdate" /\ Len(last'.args[1]) = 0)
          => last'.out.err = "BadRequestError"
     /\ (last'.op \in {"Company.update", "Job.update"} /\ Len(last'.args[2]) = 0)
          => /\ last'.err = "BadRequestError"
             /\ last'.queries = <<>>
             /\ UNCHANGED <<companies, jobs, nextId>>]_vars

\* an update without data was refused while the store held a job
C2_Witness ==
  /\ last.op = "Job.update"
  /\ Len(last.args[2]) = 0
  /\ last.err = "BadRequestError"
  /\ DOMAIN jobs # {}

\* the statement text has a WHERE keyword
HasWhere(sql) == \E i \in 1..Len(sql) : sql[i].k = "WHERE"

\* C3: whatever the filters of Company.findAll or Job.findAll (absent, falsy
\* or truthy), the statement sent never has WHERE followed by no predicate:
\* WHERE is there if and only if a predicate was appended.
C3_NoBareWhere ==
  (last.op \in {"Company.findAll", "Job.findAll"}) =>
    \A q \in 1..Len(last.queries) :
      LET sql == last.queries[q].sql
      IN /\ \A i \in 1..Len(sql) :
              sql[i].k = "WHERE" => (i < Len(sql) /\ sql[i + 1].k = "pred")
         /\ HasWhere(sql) <=> Len(OfKind(sql, "pred")) > 0

\* a search whose filters are all absent or falsy sent a statement without
\* WHERE
C3_Witness ==
  /\ last.op = "Company.findAll"
  /\ last.args[1] = [name |-> Str(""), minEmployees |-> Num(0),
                     maxEmployees |-> Undefined]
  /\ Len(last.queries) = 1
  /\ ~HasWhere(last.queries[1].sql)

\* C4: Company.findAll with minEmployees and maxEmployees both given and
\* minEmployees > maxEmployees throws BadRequestError and sends no query.
C4_MinAboveMaxRejected ==
  (/\ last.op = "Company.findAll"
   /\ last.args[1].minEmployees.t = "number"
   /\ last.args[1].maxEmployees.t = "number"
   /\ last.args[1].minEmployees.n > last.args[1].maxEmployees.n)
  => (last.err = "BadRequestError" /\ last.queries = <<>>)

\* a search for at least 1 and at most 0 employees was refused
C4_Witness ==
  /\ last.op = "Company.findAll"
  /\ last.args[1].minEmployees = Num(1)
  /\ last.args[1].maxEmployees = Num(0)
  /\ last.err = "BadRequestError"

\* the recognized non-boolean filters of a search, in the source's order,
\* each with the column its predicate names
ValueFilters(op) ==
  IF op = "Company.findAll"
  THEN << [key |-> "name", col |-> "name"],
          [key |-> "minEmployees", col |-> "num_employees"],
          [key |-> "maxEmployees", col |-> "num_employees"] >>
  ELSE << [key |-> "title", col |-> "title"],
          [key |-> "minSalary", col |-> "salary"] >>

\* C5: in Company.findAll and Job.findAll every recognized non-boolean
\* filter that is defined appends one predicate and pushes one value, in the
\* fixed key order, its placeholder the next position: the placeholders are
\* $1..$k and the values list has length k, k the number of defined filters.
C5_DefinedFilterAppends ==
  (last.op \in {"Company.findAll", "Job.findAll"} /\ last.err = "") =>
    LET given == SelectSeq(ValueFilters(last.op),
                           LAMBDA f : last.args[1][f.key] # Undefined)
        q == last.queries[1]
        bound == SelectSeq(q.sql, LAMBDA t : t.k = "pred" /\ t.ph # 0)
    IN /\ Len(bound) = Len(given)
       /\ Len(q.values) = Len(given)
       /\ \A i \in 1..Len(bound) : bound[i].ph = i /\ bound[i].col = given[i].col

\* what Company.create does, the duplicate refused with an error of dupErrs
CreateOutcome(dupErrs) ==
  last'.op = "Company.create" =>
    LET data == last'.args[1]
        h == data.handle.s
        inserts == {i \in 1..Len(last'.queries) : last'.queries[i].sql[1].k = "INSERT"}
    IN IF h \in DOMAIN companies
       THEN /\ last'.err \in dupErrs
            /\ inserts = {}
            /\ UNCHANGED <<companies, jobs, nextId>>
       ELSE /\ last'.err = ""
            /\ Cardinality(inserts) = 1
            /\ DOMAIN companies' = DOMAIN companies \cup {h}
            /\ \A k \in DOMAIN companies : companies'[k] = companies[k]
            /\ UNCHANGED <<jobs, nextId>>
            /\ last'.ret = data

\* C6 as stated: Company.create on a handle already in the store fails with
\* the Conflict error, a kind of its own beside InvalidInput
\* (BadRequestError) and NotFound (NotFoundError), and leaves the store
\* unchanged; on a new handle it inserts one company and returns the record.
C6_DuplicateIsConflict == [][CreateOutcome({"ConflictError"})]_vars

\* C6 amended: Company.create on a handle already in the store throws
\* BadRequestError, the error class of InvalidInput, sends no INSERT and
\* leaves the store unchanged; on a new handle it inserts exactly one
\* company and returns { handle, name, description, numEmployees, logoUrl }
\* as given.
C6_DuplicateIsBadRequest == [][CreateOutcome({"BadRequestError"})]_vars

\* a create was refused as a duplicate while the company was in the store
C6_Witness ==
  /\ last.op = "Company.create"
  /\ last.err = "BadRequestError"
  /\ last.args[1].handle.s \in DOMAIN companies
  /\ Len(last.queries) = 1

NotFoundAndUntouched ==
  /\ last'.err = "NotFoundError"
  /\ UNCHANGED <<companies, jobs, nextId>>

\* C7: get, update with non-empty data and remove, of Company and of Job,
\* called with a key that matches no row throw NotFoundError and leave the
\* store as it was.
C7_MissingKeyNotFound ==
  [][/\ (/\ last'.op \in {"Company.get", "Company.remove"}
         /\ last'.args[1].s \notin DOMAIN companies) => NotFoundAndUntouched
     /\ (/\ last'.op = "Company.update"
         /\ Len(last'.args[2]) > 0
         /\ last'.args[1].s \notin DOMAIN companies) => NotFoundAndUntouched
     /\ (/\ last'.op \in {"Job.get", "Job.remove"}
         /\ last'.args[1].n \notin DOMAIN jobs) => NotFoundAndUntouched
     /\ (/\ last'.op = "Job.update"
         /\ Len(last'.args[2]) > 0
         /\ last'.args[1].n \notin DOMAIN jobs) => NotFoundAndUntouched]_vars

\* an update of a job that is not there was refused while another job and
\* its company were in the store
C7_Witness ==
  /\ last.op = "Job.update"
  /\ Len(last.args[2]) > 0
  /\ last.err = "NotFoundError"
  /\ last.args[1].n \notin DOMAIN jobs
  /\ DOMAIN jobs # {}

CompanyFields == {"handle", "name", "description", "numEmployees", "logoUrl"}

\* C8: Company.create that succeeds, followed at once by Company.get on the
\* same handle, returns the handle, name, description, numEmployees and
\* logoUrl given to create, and an empty jobs list.
C8_CreateThenGet ==
  [][(/\ last.op = "Company.create"
      /\ last.err = ""
      /\ last'.op = "Company.get"
      /\ last'.args[1] = last.args[1].handle)
     => /\ last'.err = ""
        /\ DOMAIN last'.ret = CompanyFields \cup {"jobs"}
        /\ \A f \in CompanyFields : last'.ret[f] = last.args[1][f]
        /\ last'.ret.jobs = <<>>]_vars

\* a get returned the record as created, no job ever made
C8_Witness ==
  /\ last.op = "Company.get"
  /\ last.err = ""
  /\ nextId = 1
  /\ \E data \in NewCompanies :
       /\ \A f \in CompanyFields : last.ret[f] = data[f]
       /\ last.ret.jobs = <<>>

EquityPredicate == Tok("pred", "equity", "> 0", 0)

\* C9: Job.findAll appends the predicate equity > 0 if and only if hasEquity
\* is the boolean true, and the predicate binds no value: the values list
\* and the title and minSalary predicates with their placeholders are those
\* of the same search without hasEquity.
C9_EquityOnlyWhenTrue ==
  (last.op = "Job.findAll") =>
    LET f == last.args[1]
        q == last.queries[1]
        plain == JobFindAll(Db, [f EXCEPT !.hasEquity = Undefined]).queries[1]
        others(sql) == SelectSeq(sql, LAMBDA t : t.k = "pred" /\ t # EquityPredicate)
    IN /\ (\E i \in 1..Len(q.sql) : q.sql[i] = EquityPredicate)
            <=> f.hasEquity = Bool(TRUE)
       /\ \A i \in 1..Len(q.sql) : q.sql[i].col = "equity" => q.sql[i].ph = 0
       /\ q.values = plain.values
       /\ others(q.sql) = others(plain.sql)

\* a search with title, minSalary and hasEquity true bound two values
C9_Witness ==
  /\ last.op = "Job.findAll"
  /\ last.args[1] = [title |-> Str("J1"), minSalary |-> Num(1),
                     hasEquity |-> Bool(TRUE)]
  /\ Len(last.queries[1].values) = 2
  /\ \E i \in 1..Len(last.queries[1].sql) : last.queries[1].sql[i] = EquityPredicate

\* C10: for data with n > 0 keys the UPDATE of Company.update and Job.update
\* binds the row key to $(n+1) and passes it last in a values list of length
\* n + 1; the SET placeholders are $1..$n, every placeholder $1..$(n+1)
\* occurs exactly once, and no SET column is bound to the key's position.
C10_KeyBoundLast ==
  (last.op \in {"Company.update", "Job.update"} /\ Len(last.args[2]) > 0) =>
    LET n == Len(last.args[2])
    IN /\ Len(last.queries) = 1
       /\ LET q == last.queries[1]
              sets == OfKind(q.sql, "set")
              preds == OfKind(q.sql, "pred")
          IN /\ Len(q.values) = n + 1
             /\ q.values[n + 1] = last.args[1]
             /\ Len(preds) = 1
             /\ preds[1].ph = n + 1
             /\ preds[1].col = (IF last.op = "Company.update" THEN "handle" ELSE "id")
             /\ Len(sets) = n
             /\ \A i \in 1..n : sets[i].ph = i
             /\ \A p \in 1..(n + 1) :
                  Cardinality({i \in 1..Len(q.sql) : q.sql[i].ph = p}) = 1

\* an update of two fields of a company went through
C10_Witness ==
  /\ last.op = "Company.update"
  /\ Len(last.args[2]) = 2
  /\ last.err = ""
  /\ last.ret.handle = last.args[1]

\* the call has sent its INSERT
Issued(call) ==
  \E i \in 1..Len(call.queries) : call.queries[i].sql[1].k = "INSERT"

\* C11 as stated: however the round-trips of concurrent Company.create calls
\* for one handle interleave, at most one call sends the INSERT, every other
\* call fails with the duplicate error of the pre-check, and no call sends
\* the INSERT while a company with the handle is in the store.
C11_AtMostOneInsert ==
  [][/\ Cardinality({p \in Procs : Issued(calls'[p])}) <= 1
     /\ \A p \in Procs :
          /\ (calls'[p].pc = "done" /\ ~Issued(calls'[p]))
               => calls'[p].err = "BadRequestError"
          /\ (calls[p].pc = "insert" /\ calls'[p].pc = "done")
               => calls[p].data.handle.s \notin DOMAIN companies]_vars

\* C11 amended: a call sends its INSERT only after its own pre-check found no
\* company with the handle, and a call whose pre-check runs while the
\* company is in the store throws BadRequestError, sends no INSERT and
\* leaves the store alone.  The pre-check and the INSERT are two round-trips:
\* an INSERT that reaches the store while the company is there is refused by
\* the store, with the store's error, and at most one call returns a company.
C11_CheckThenInsert ==
  [][/\ Cardinality({p \in Procs : calls'[p].pc = "done" /\ calls'[p].err = ""}) <= 1
     /\ \A p \in Procs :
          /\ (calls[p].pc = "start" /\ calls'[p].pc # "start")
               => /\ ~Issued(calls'[p])
                  /\ Len(calls'[p].queries) = 1
                  /\ UNCHANGED <<companies, jobs, nextId>>
                  /\ IF calls'[p].data.handle.s \in DOMAIN companies
                     THEN calls'[p].pc = "done" /\ calls'[p].err = "BadRequestError"
                     ELSE calls'[p].pc = "insert" /\ calls'[p].err = ""
          /\ (calls[p].pc = "insert" /\ calls'[p].pc = "done")
               => /\ Issued(calls'[p])
                  /\ calls'[p].queries[1].sql[1].k = "SELECT"
                  /\ IF calls[p].data.handle.s \in DOMAIN companies
                     THEN /\ calls'[p].err = "StoreError"
                          /\ UNCHANGED <<companies, jobs, nextId>>
                     ELSE /\ calls'[p].err = ""
                          /\ calls'[p].ret = calls[p].data
                          /\ calls[p].data.handle.s \in DOMAIN companies']_vars

\* two calls both passed the pre-check and both sent the INSERT: one
\* returned the company, the store refused the other
C11_Witness ==
  \E p, q \in Procs :
    /\ p # q
    /\ Issued(calls[p]) /\ calls[p].pc = "done" /\ calls[p].err = ""
    /\ Issued(calls[q]) /\ calls[q].pc = "done" /\ calls[q].err = "StoreError"

====
